---------------------------- MODULE Spec2Model ----------------------------
(***************************************************************************)
(* The log-follow engine of slog.py (SlogViewer.follow_logs): a tail -f    *)
(* subprocess read by the read_output thread, the check_job_status thread  *)
(* polling squeue, and the main merge loop that consumes output_queue and  *)
(* writes the terminal.                                                    *)
(***************************************************************************)
EXTENDS Integers, Sequences, FiniteSets, TLC

VARIABLES
    exists,          \* os.path.exists of each target, now
    flen,            \* number of lines appended to each target so far
    show,            \* show_out / show_err
    name_has_id,     \* does files_to_follow[0] match -(\d+)\.(out|err)$
    status_interval, \* the status_interval argument
    files_to_follow, \* the list built at lines 223-227
    job_id,          \* "None" or the extracted identifier
    process,         \* the tail subprocess: "none", "running", "ended"
    tail_off,        \* lines of each target tail has already written
    tail_last,       \* the target tail wrote its last header for
    pipe,            \* process.stdout: lines written by tail, not yet read
    rpc,             \* read_output thread: "idle", "reading", "finished"
    put_log,         \* history: every message read_output put on the queue
    output_queue,    \* queue.Queue(): FIFO of <<msg_type, content>>
    job_running,     \* nonlocal job_running
    last_status,     \* nonlocal last_status
    ppc,             \* check_job_status thread position
    ticks,           \* 0.1 s sleeps taken by the last sleep loop
    scripted,        \* TRUE when squeue answers follow a fixed script
    script,          \* the remaining scripted squeue answers
    queries,         \* history: what every squeue query told, in order
    emitted,         \* history: every event the poller put on the queue
    stderr_out,      \* what the threads have written on sys.stderr
    current_status,  \* the merge loop's current_status
    mstate,          \* "Starting", "Running", "Draining", "Terminated"
    outcome,         \* how the session ended
    got_log,         \* history: the messages taken that read_output put
    got_poll,        \* history: the messages taken that the poller put
    written,         \* the terminal writes of the main thread's last step
    sacct_answer,    \* history: what the sacct call of the session gave
    raw_line,        \* a line of a log file, as a sequence of tokens
    is_error,        \* does the line come from the .err file
    no_color,        \* self.no_color
    applied,         \* which of the colouring paths have run on the line
    static_out,      \* what colorize_line returned for the line
    live_out,        \* what the 'log' branch of the merge loop printed
    again_out        \* what colorize_line returned for its own result

vars == <<exists, flen, show, name_has_id, status_interval, files_to_follow,
          job_id, process, tail_off, tail_last, pipe, rpc, put_log,
          output_queue,
          job_running, last_status, ppc, ticks, scripted, script,
          queries, emitted, stderr_out, current_status, mstate, outcome,
          got_log, got_poll, written, sacct_answer, raw_line, is_error, no_color, applied,
          static_out, live_out, again_out>>

envVars    == <<exists, flen>>
inputVars  == <<show, name_has_id, status_interval, scripted>>
tailVars   == <<process, tail_off, tail_last, pipe>>
readVars   == <<rpc, put_log>>
pollVars   == <<job_running, last_status, ppc, ticks, script, queries, emitted,
                stderr_out>>
mergeVars  == <<current_status, mstate, outcome, got_log, got_poll, written,
                sacct_answer>>
lineVars   == <<raw_line, is_error, no_color, applied, static_out,
                live_out, again_out>>

-----------------------------------------------------------------------------
(* Bounds of the model *)

MaxLines == 2      \* lines appended to the targets, in total
MaxPolls == 2      \* squeue queries of a session with free answers
MaxInterval == 1   \* the status_interval argument, in seconds

(* Program constants *)

TicksPerSecond == 10   \* range(status_interval * 10)
SacctTimeout == 5      \* subprocess.run(..., timeout=5)

Files == {"out", "err"}
NoText == <<>>         \* the empty string ""

\* The job identifier group(1) of the filename match; opaque digits.
TheJobId == "4242"


-----------------------------------------------------------------------------
(* The scheduler's status query: subprocess.run(['squeue', ...]).          *)
(* A result is its return code, its stdout as the whitespace-separated     *)
(* parts of stdout.strip().split(None, 2), and whether the call raised.    *)

SqueueResult(rc, out, raised) == [rc |-> rc, out |-> out, raised |-> raised]

\* Answers squeue can give while the job is in the active queue.
ActiveAnswers ==
    { SqueueResult(0, <<"RUNNING", "0:05">>, FALSE),
      SqueueResult(0, <<"RUNNING", "0:05", "None">>, FALSE),
      SqueueResult(0, <<"PENDING", "0:00", "(Priority)">>, FALSE) }

\* The job is reported absent from the queue: exit 0, nothing printed.
AbsentAnswer == SqueueResult(0, <<>>, FALSE)

\* The query itself fails: non-zero exit, or the call raises in the thread.
FailedAnswers == { SqueueResult(1, <<>>, FALSE), SqueueResult(0, <<>>, TRUE) }

\* What one query told, for the history of queries.
Told(r) ==
    IF r.raised THEN "raised"
    ELSE IF r.rc # 0 THEN "error"
    ELSE IF r.out = <<>> THEN "absent"
    ELSE "active"

\* What the scheduler may answer to the next query: it is outside the
\* program, so any answer can follow any other.
SqueueAnswers ==
    IF scripted
    THEN { Head(script) }
    ELSE ActiveAnswers \cup { AbsentAnswer } \cup FailedAnswers

\* status_parts[i] if len(status_parts) > i else default   (lines 285-287)
PartOr(parts, i, default) == IF Len(parts) >= i THEN parts[i] ELSE default

\* The formatted status text of lines 289-291, as its sequence of fields.
ComposeStatus(id, parts) ==
    LET state   == PartOr(parts, 1, "UNKNOWN")
        runtime == PartOr(parts, 2, "0:00")
        reason  == PartOr(parts, 3, "")
    IN  <<"Job", id, state, "Runtime", runtime>>
          \o (IF reason # "" /\ reason # "None" THEN <<reason>> ELSE <<>>)

\* if result.returncode == 0 and result.stdout.strip()     (line 282)
JobStillRunning(r) == r.rc = 0 /\ r.out # <<>>

\* Slip: the comparison with last_status is dropped.
StatusChanged_Always(status, last) == TRUE

\* if status != last_status                                 (line 293)
StatusChanged(status, last) == status # last

Msg(t, c) == [type |-> t, content |-> c]

-----------------------------------------------------------------------------
(* The accounting query of Draining: subprocess.run(['sacct', ...],        *)
(* timeout=5).  stdout is the list result.stdout.strip().split(); an exit  *)
(* code is kept as its characters so that startswith("0:") is computed.    *)

SacctResult(kind, out) == [kind |-> kind, out |-> out]

SacctAnswers ==
    { SacctResult("exit0", <<"COMPLETED", <<"0", ":", "0">> >>),
      SacctResult("exit0", <<"COMPLETED", <<"2", ":", "0">> >>),
      SacctResult("exit0", <<"FAILED", <<"1", ":", "0">> >>),
      SacctResult("exit0", <<"FAILED", <<"0", ":", "0">> >>),
      SacctResult("exit0", <<"TIMEOUT", <<"0", ":", "0">> >>),
      SacctResult("exit0", <<"CANCELLED", <<"0", ":", "1", "5">> >>),
      SacctResult("exit0", <<"COMPLETED">>),
      SacctResult("exit0", <<>>),
      SacctResult("nonzero", <<>>),
      SacctResult("timeout", <<>>),
      SacctResult("notfound", <<>>) }

\* sacct has not been called.
NotAsked == SacctResult("none", << >>)

\* exit_code.startswith("0:")
StartsWithZeroColon(code) == Len(code) >= 2 /\ code[1] = "0" /\ code[2] = ":"

\* Slip: the state alone decides, the exit code is not looked at.
SummaryWrites_StateOnly(r) ==
    IF r.kind \in {"timeout", "notfound"}
    THEN << [op |-> "summary", kind |-> "unknown"] >>
    ELSE IF r.kind = "exit0" /\ r.out # <<>>
         THEN IF Len(r.out) >= 2
              THEN IF r.out[1] = "COMPLETED"
                   THEN << [op |-> "summary", kind |-> "success"] >>
                   ELSE IF r.out[1] = "FAILED"
                        THEN << [op |-> "summary", kind |-> "failure"] >>
                        ELSE << [op |-> "summary", kind |-> "neutral"] >>
              ELSE << >>
         ELSE << [op |-> "summary", kind |-> "unknown"] >>

\* The summary lines printed at lines 329-347, as terminal writes; no line
\* at all when sacct prints fewer than two fields.
SummaryWrites(r) ==
    IF r.kind \in {"timeout", "notfound"}
    THEN << [op |-> "summary", kind |-> "unknown"] >>
    ELSE IF r.kind = "exit0" /\ r.out # <<>>
         THEN IF Len(r.out) >= 2
              THEN LET state == r.out[1]
                       exit_code == r.out[2]
                   IN  IF state = "COMPLETED" /\ exit_code = <<"0", ":", "0">>
                       THEN << [op |-> "summary", kind |-> "success"] >>
                       ELSE IF state = "FAILED" \/ ~StartsWithZeroColon(exit_code)
                            THEN << [op |-> "summary", kind |-> "failure"] >>
                            ELSE << [op |-> "summary", kind |-> "neutral"] >>
              ELSE << >>
         ELSE << [op |-> "summary", kind |-> "unknown"] >>

-----------------------------------------------------------------------------
(* Terminal writes of the merge loop *)

\* sys.stdout.write('\r' + ' ' * 80 + '\r')
ClearLine == [op |-> "clear"]
\* sys.stdout.write(colorize(f"[{current_status}]", ...)), no newline
Footer(text) == [op |-> "footer", text |-> text]
\* print(...) of one log or header line
LineOut(line) == [op |-> "line", line |-> line]
Banner(id) == [op |-> "banner", job |-> id]
Notice(what) == [op |-> "notice", what |-> what]

HeaderLine(f) == [kind |-> "hdr", src |-> f, n |-> 0]
TextLine(f, n) == [kind |-> "text", src |-> f, n |-> n]

\* Slip: every requested file is followed, existing or not.
FilesToFollow_IgnoresExists(sh, ex) ==
    (IF sh["out"] THEN <<"out">> ELSE <<>>)
      \o (IF sh["err"] THEN <<"err">> ELSE <<>>)

\* lines 223-227
FilesToFollow(sh, ex) ==
    (IF sh["out"] /\ ex["out"] THEN <<"out">> ELSE <<>>)
      \o (IF sh["err"] /\ ex["err"] THEN <<"err">> ELSE <<>>)

Range(seq) == { seq[i] : i \in 1..Len(seq) }

\* The writes of the 'status' branch, lines 352-357.
StatusBranchWrites(new_status) == << ClearLine, Footer(new_status) >>

\* Slip: the status line is not reprinted after the log line.
LogBranchWrites_NoRedraw(cur, line) ==
    (IF cur # NoText THEN << ClearLine >> ELSE << >>) \o << LineOut(line) >>

\* The writes of the 'log' branch, lines 358-387.
LogBranchWrites(cur, line) ==
    (IF cur # NoText THEN << ClearLine >> ELSE << >>)
      \o << LineOut(line) >>
      \o (IF cur # NoText THEN << Footer(cur) >> ELSE << >>)

-----------------------------------------------------------------------------
InitCommon ==
    /\ exists \in [Files -> BOOLEAN]
    /\ flen = [f \in Files |-> 0]
    /\ show = [f \in Files |-> TRUE]
    /\ name_has_id \in BOOLEAN
    /\ status_interval = MaxInterval
    /\ files_to_follow = <<>>
    /\ job_id = "None"
    /\ process = "none"
    /\ tail_off = [f \in Files |-> 0]
    /\ tail_last = "none"
    /\ pipe = <<>>
    /\ rpc = "idle"
    /\ put_log = <<>>
    /\ output_queue = <<>>
    /\ job_running = TRUE
    /\ last_status = NoText
    /\ ppc = "idle"
    /\ ticks = 0
    /\ queries = <<>>
    /\ emitted = <<>>
    /\ stderr_out = <<>>
    /\ current_status = NoText
    /\ mstate = "Starting"
    /\ outcome = "none"
    /\ got_log = <<>>
    /\ got_poll = <<>>
    /\ written = <<>>
    /\ sacct_answer = NotAsked

\* No line is being coloured.
LineIdle ==
    /\ raw_line = <<>>
    /\ is_error = FALSE
    /\ no_color = FALSE
    /\ applied = {}
    /\ static_out = <<>>
    /\ live_out = <<>>
    /\ again_out = <<>>

Init == InitCommon /\ LineIdle /\ scripted = FALSE /\ script = <<>>

-----------------------------------------------------------------------------
(* Environment: the filesystem *)

CreateFile(f) ==
    /\ ~exists[f]
    /\ exists' = [exists EXCEPT ![f] = TRUE]
    /\ UNCHANGED <<flen, inputVars, lineVars, files_to_follow, job_id,
                   tailVars, readVars, output_queue, pollVars, mergeVars>>

AppendLine(f) ==
    /\ exists[f]
    /\ flen["out"] + flen["err"] < MaxLines
    /\ flen' = [flen EXCEPT ![f] = @ + 1]
    /\ UNCHANGED <<exists, inputVars, lineVars, files_to_follow, job_id,
                   tailVars, readVars, output_queue, pollVars, mergeVars>>

-----------------------------------------------------------------------------
(* follow_logs up to the merge loop, lines 221-315 *)

\* Slip: the status thread is started whether or not a job id was found.
StatusThreadStart_Always(id) == "test"

\* if job_id: status_thread.start()                       (lines 307-310)
StatusThreadStart(id) == IF id # "None" THEN "test" ELSE "idle"

FollowStart ==
    /\ mstate = "Starting"
    /\ LET ftf == FilesToFollow(show, exists)
           id  == IF name_has_id THEN TheJobId ELSE "None"
       IN  IF ftf = <<>>
           THEN /\ written' = << Notice("nothing to follow") >>
                /\ mstate' = "Terminated"
                /\ outcome' = "NothingToFollow"
                /\ UNCHANGED <<files_to_follow, job_id, process, rpc, ppc>>
           ELSE /\ files_to_follow' = ftf
                /\ job_id' = id
                /\ written' =
                      (IF id = "None" THEN << Notice("no job id") >> ELSE << >>)
                        \o << Notice("following") >>
                /\ process' = "running"
                /\ rpc' = "reading"
                /\ ppc' = StatusThreadStart(id)
                /\ mstate' = "Running"
                /\ outcome' = outcome
    /\ UNCHANGED <<envVars, inputVars, lineVars,
                   tail_off, tail_last, pipe, put_log,
                   output_queue, job_running, last_status, ticks, script,
                   queries, emitted, stderr_out, current_status, got_log,
                   got_poll, sacct_answer>>

-----------------------------------------------------------------------------
(* The tail -f subprocess, line 258 *)

\* Slip: tail writes no "==> file <==" header, as tail -q does.
TailOutput_Quiet(f) == << TextLine(f, tail_off[f] + 1) >>

\* tail writes the next unread line of f, after a header when more than
\* one file is followed and the previous output came from another file.
TailOutput(f) ==
    (IF Len(files_to_follow) > 1 /\ tail_last # f
     THEN << HeaderLine(f) >> ELSE << >>)
      \o << TextLine(f, tail_off[f] + 1) >>

TailWrite(f) ==
    /\ process = "running"
    /\ f \in Range(files_to_follow)
    /\ tail_off[f] < flen[f]
    /\ pipe' = pipe \o TailOutput(f)
    /\ tail_off' = [tail_off EXCEPT ![f] = @ + 1]
    /\ tail_last' = f
    /\ UNCHANGED <<envVars, inputVars, lineVars,
                   files_to_follow, job_id, process,
                   readVars,
                   output_queue, pollVars, mergeVars>>

\* tail ends on its own: killed from outside, or a read error.
TailExit ==
    /\ process = "running"
    /\ process' = "ended"
    /\ UNCHANGED <<envVars, inputVars, lineVars,
                   files_to_follow, job_id, tail_off,
                   tail_last, pipe, readVars, output_queue, pollVars,
                   mergeVars>>

-----------------------------------------------------------------------------
(* The read_output thread, lines 263-266 *)

\* for line in process.stdout: output_queue.put(('log', line))
ReadLine ==
    /\ rpc = "reading"
    /\ pipe # <<>>
    /\ output_queue' = Append(output_queue, Msg("log", Head(pipe)))
    /\ put_log' = Append(put_log, Msg("log", Head(pipe)))
    /\ pipe' = Tail(pipe)
    /\ UNCHANGED <<envVars, inputVars, lineVars,
                   files_to_follow, job_id, process,
                   tail_off, tail_last, rpc, pollVars, mergeVars>>

\* end of file on the pipe: output_queue.put(('done', None))
ReadEOF ==
    /\ rpc = "reading"
    /\ pipe = <<>>
    /\ process = "ended"
    /\ output_queue' = Append(output_queue, Msg("done", "None"))
    /\ put_log' = Append(put_log, Msg("done", "None"))
    /\ rpc' = "finished"
    /\ UNCHANGED <<envVars, inputVars, lineVars,
                   files_to_follow, job_id, tailVars,
                   pollVars, mergeVars>>

-----------------------------------------------------------------------------
(* The check_job_status thread, lines 276-305 *)

Returned == mstate = "Terminated"

\* The messages one query result makes the poller put on the queue.
PollPuts(r, id, last) ==
    IF JobStillRunning(r)
    THEN IF StatusChanged(ComposeStatus(id, r.out), last)
         THEN << Msg("status", ComposeStatus(id, r.out)) >>
         ELSE << >>
    ELSE << Msg("completed", id) >>

\* Slip: the completion branch forgets job_running = False.
RunningAfter_KeepsRunning(r) == TRUE

\* job_running after one query result (line 298).
RunningAfter(r) == JobStillRunning(r)

\* last_status after one query result (line 295).
LastStatusAfter(r, id, last) ==
    IF JobStillRunning(r) THEN ComposeStatus(id, r.out) ELSE last

\* History entry of a put: the message, the number of the query that caused
\* it, whether follow_logs had already returned and, for 'completed', how
\* many messages read_output had put before it.
Stamp(seq, q) ==
    [i \in 1..Len(seq) |->
        [msg |-> seq[i], q |-> q, returned |-> Returned,
         logs |-> IF seq[i].type = "completed" THEN Len(put_log) ELSE 0]]

\* An exception that leaves a thread's target uncaught ends the thread, and
\* threading's excepthook prints its traceback on sys.stderr; the call at
\* lines 280-281 is inside no try.
Traceback(thread) == << [op |-> "traceback", thread |-> thread] >>

\* One pass of the while body up to the sleep loop: query and react.
PollerQuery ==
    /\ ppc = "test"
    /\ job_running
    /\ IF scripted THEN script # <<>> ELSE Len(queries) < MaxPolls
    /\ \E r \in SqueueAnswers :
         /\ queries' = Append(queries, [told |-> Told(r), returned |-> Returned])
         /\ script' = IF scripted THEN Tail(script) ELSE script
         /\ IF r.raised
            THEN /\ ppc' = "dead"
                 /\ stderr_out' = stderr_out \o Traceback("check_job_status")
                 /\ UNCHANGED <<output_queue, emitted, job_running,
                                last_status>>
            ELSE /\ ppc' = "sleep"
                 /\ stderr_out' = stderr_out
                 /\ output_queue' = output_queue \o PollPuts(r, job_id, last_status)
                 /\ emitted' = emitted \o Stamp(PollPuts(r, job_id, last_status),
                                                   Len(queries) + 1)
                 /\ job_running' = RunningAfter(r)
                 /\ last_status' = LastStatusAfter(r, job_id, last_status)
    /\ UNCHANGED <<envVars, inputVars, lineVars,
                   files_to_follow, job_id, tailVars,
                   readVars,
                   ticks, mergeVars>>

\* The 0.1 s sleeps of: for _ in range(status_interval * 10):
\*     if not job_running: break
\*     time.sleep(0.1)
\* job_running is written by this thread alone, so the loop runs to its end
\* or breaks at once.
SleepsTaken(interval, running) ==
    IF running /\ interval > 0 THEN interval * TicksPerSecond ELSE 0

PollerSleep ==
    /\ ppc = "sleep"
    /\ ticks' = SleepsTaken(status_interval, job_running)
    /\ ppc' = "test"
    /\ UNCHANGED <<envVars, inputVars, lineVars,
                   files_to_follow, job_id, tailVars,
                   readVars,
                   output_queue, job_running, last_status, script, queries,
                   emitted, stderr_out, mergeVars>>

\* while job_running: is false, the thread ends
PollerExit ==
    /\ ppc = "test"
    /\ ~job_running
    /\ ppc' = "exited"
    /\ UNCHANGED <<envVars, inputVars, lineVars,
                   files_to_follow, job_id, tailVars,
                   readVars,
                   output_queue, job_running, last_status, ticks, script,
                   queries, emitted, stderr_out, mergeVars>>

-----------------------------------------------------------------------------
(* The merge loop, lines 317-392 *)

\* Slip: only the first status is stored.
StatusAfter_KeepsFirst(m, cur) ==
    IF m.type = "status" /\ cur = NoText THEN m.content ELSE cur

\* current_status after taking one message (line 353).
StatusAfter(m, cur) == IF m.type = "status" THEN m.content ELSE cur

\* What the loop writes for one message, before any sacct lookup.
MergeWrites(m, cur) ==
    IF m.type = "status" THEN StatusBranchWrites(m.content)
    ELSE IF m.type = "log" THEN LogBranchWrites(cur, m.content)
    ELSE IF m.type = "completed" THEN << Banner(m.content) >>
    ELSE << >>

\* Slip: 'completed' is taken like any other message and the loop goes on.
StateAfter_IgnoresCompleted(m) ==
    IF m.type = "done" THEN "Terminated" ELSE "Running"

\* The loop's state after one message: 'done' breaks out and returns,
\* 'completed' enters the final-status lookup, anything else loops.
StateAfter(m) ==
    IF m.type = "done" THEN "Terminated"
    ELSE IF m.type = "completed" THEN "Draining"
    ELSE "Running"

\* 'log' and 'done' come from read_output, 'status' and 'completed' from
\* check_job_status.
FromReader(m) == m.type \in {"log", "done"}

\* Slip: the newest message is taken, as from a queue.LifoQueue.
QueueHead_Newest(q) == q[Len(q)]

\* The message output_queue.get() returns: the oldest one.
QueueHead(q) == Head(q)

\* Slip: the message is read but left on the queue.
QueueAfterGet_Peek(q) == q

\* The queue after output_queue.get() returned its head.
QueueAfterGet(q) == Tail(q)

\* msg_type, content = output_queue.get(timeout=0.1), and its branch
MergerGet ==
    /\ mstate = "Running"
    /\ output_queue # <<>>
    /\ LET m == QueueHead(output_queue)
       IN  /\ output_queue' = QueueAfterGet(output_queue)
           /\ got_log' = IF FromReader(m) THEN Append(got_log, m) ELSE got_log
           /\ got_poll' = IF FromReader(m) THEN got_poll ELSE Append(got_poll, m)
           /\ current_status' = StatusAfter(m, current_status)
           /\ written' = MergeWrites(m, current_status)
           /\ mstate' = StateAfter(m)
           /\ outcome' = IF m.type = "done" THEN "StreamClosed" ELSE outcome
           /\ sacct_answer' = sacct_answer
    /\ UNCHANGED <<envVars, inputVars, lineVars,
                   files_to_follow, job_id, tailVars,
                   readVars,
                   pollVars>>

\* The rest of the 'completed' branch, lines 328-351: the sacct lookup,
\* the summary, the closing rule, process.terminate() and return.
MergerDrain ==
    /\ mstate = "Draining"
    /\ \E r \in SacctAnswers :
         /\ written' = SummaryWrites(r) \o << [op |-> "rule"] >>
         /\ sacct_answer' = r
    /\ process' = "ended"
    /\ mstate' = "Terminated"
    /\ outcome' = "Completed"
    /\ UNCHANGED <<envVars, inputVars, lineVars,
                   files_to_follow, job_id, tail_off,
                   tail_last, pipe, readVars, output_queue, pollVars,
                   current_status, got_log, got_poll>>

\* KeyboardInterrupt in the main thread, lines 391-397.
Cancel ==
    /\ mstate \in {"Running", "Draining"}
    /\ process' = "ended"
    /\ written' = << Notice("stopped") >>
    /\ mstate' = "Terminated"
    /\ outcome' = "Cancelled"
    /\ UNCHANGED <<envVars, inputVars, lineVars,
                   files_to_follow, job_id, tail_off,
                   tail_last, pipe, readVars, output_queue, pollVars,
                   current_status, got_log, got_poll, sacct_answer>>

-----------------------------------------------------------------------------
Next ==
    \/ \E f \in Files : CreateFile(f)
    \/ \E f \in Files : AppendLine(f)
    \/ FollowStart
    \/ \E f \in Files : TailWrite(f)
    \/ TailExit
    \/ ReadLine
    \/ ReadEOF
    \/ PollerQuery
    \/ PollerSleep
    \/ PollerExit
    \/ MergerGet
    \/ MergerDrain
    \/ Cancel

Spec == Init /\ [][Next]_vars

\* The threads are scheduled fairly: the merge loop polls the queue every
\* 0.1 s (get with a timeout, in a while True), the sacct call is bounded by
\* its timeout, and the status thread runs whenever it can.  Nothing is
\* assumed of the files, of tail, of read_output or of the interrupt.
Fairness ==
    /\ WF_vars(MergerGet)
    /\ WF_vars(MergerDrain)
    /\ WF_vars(PollerQuery)
    /\ WF_vars(PollerSleep)
    /\ WF_vars(PollerExit)

SpecFair == Init /\ [][Next]_vars /\ Fairness

-----------------------------------------------------------------------------
(* The session whose scheduler answers RUNNING/0:05, RUNNING/0:05,         *)
(* RUNNING/0:10 and then reports the job absent.                           *)

Running005 == SqueueResult(0, <<"RUNNING", "0:05">>, FALSE)
Running010 == SqueueResult(0, <<"RUNNING", "0:10">>, FALSE)

ScriptedAnswers == << Running005, Running005, Running010, AbsentAnswer >>

InitScripted ==
    /\ InitCommon
    /\ LineIdle
    /\ name_has_id
    /\ scripted = TRUE
    /\ script = ScriptedAnswers

SpecScripted == InitScripted /\ [][Next]_vars

-----------------------------------------------------------------------------
(* Line colouring: colorize_line, used by colorize_output for the static   *)
(* display of a file, and the colouring written out in the 'log' branch of *)
(* the merge loop.  A line is a sequence of tokens; a token stands for a   *)
(* run of characters of the line, and no regular expression of the code    *)
(* matches inside a token it is not listed for, or across two tokens.      *)

MaxLineLen == 2    \* tokens of a line

\* class Colors, lines 63-72: each code starts with '\033['
RED     == "ESC[0;31m"
GREEN   == "ESC[0;32m"
YELLOW  == "ESC[1;33m"
BLUE    == "ESC[0;34m"
MAGENTA == "ESC[0;35m"
CYAN    == "ESC[0;36m"
NC      == "ESC[0m"

Escapes == {RED, GREEN, YELLOW, BLUE, MAGENTA, CYAN, NC}

\* what [Ee]rror|ERROR|[Ff]ailed|FAILED matches
ErrorWords == {"error", "Error", "ERROR", "failed", "Failed", "FAILED"}
\* what [Ww]arning|WARNING matches
WarningWords == {"warning", "Warning", "WARNING"}
\* what [Ss]uccess|SUCCESS|[Cc]ompleted|COMPLETED|[Dd]one|DONE matches
SuccessWords == {"success", "Success", "SUCCESS", "completed", "Completed",
                 "COMPLETED", "done", "Done", "DONE"}
\* the same words in a letter case that none of the expressions matches
OtherCaseWords == {"eRRoR", "wARNiNG", "dOnE"}
\* a date and a time as \d{4}-\d{2}-\d{2} and \d{2}:\d{2}:\d{2} match them
Stamps == {"2024-01-05", "12:30:45"}
Marks == {"+", ">", "-", "[", "]"}

Tokens == ErrorWords \cup WarningWords \cup SuccessWords \cup OtherCaseWords
            \cup Stamps \cup Marks \cup {RED, "text"}

Lines == UNION { [1..n -> Tokens] : n \in 0..MaxLineLen }

\* re.search(words, l)
Search(l, words) == \E i \in 1..Len(l) : l[i] \in words
\* re.match(r'^...', l) for an expression of one token
StartsWith(l, first) == l # << >> /\ l[1] \in first

\* Slip: the test for an escape sequence is left out.
HasEscape_Never(l) == FALSE

\* '\033[' in line                                    (lines 170 and 373)
HasEscape(l) == Search(l, Escapes)

\* colorize(text, color), lines 80-84
Colorize(text, color) ==
    IF no_color THEN text ELSE << color >> \o text \o << NC >>

\* the branch for the error log, lines 176-181
ErrorLine(l) ==
    IF Search(l, ErrorWords) THEN Colorize(l, RED)
    ELSE IF Search(l, WarningWords) THEN Colorize(l, YELLOW)
    ELSE Colorize(l, MAGENTA)

\* re.match(r'^\[.*\]', l)
Bracketed(l) == StartsWith(l, {"["}) /\ \E j \in 2..Len(l) : l[j] = "]"

\* Slip: the words are looked for before the leading marks.
OutputLine_WordsFirst(l) ==
    IF Search(l, SuccessWords) THEN Colorize(l, GREEN)
    ELSE IF Search(l, ErrorWords) THEN Colorize(l, RED)
    ELSE IF Search(l, WarningWords) THEN Colorize(l, YELLOW)
    ELSE IF StartsWith(l, {"+", ">"}) THEN Colorize(l, GREEN)
    ELSE IF StartsWith(l, {"-"}) THEN Colorize(l, RED)
    ELSE IF StartsWith(l, Stamps) THEN Colorize(l, CYAN)
    ELSE IF Bracketed(l) THEN Colorize(l, BLUE)
    ELSE l

\* the branch for the output log, lines 184-199; re.match anchors both
\* alternatives of the date-or-time expression at the start of the line
OutputLine(l) ==
    IF StartsWith(l, {"+", ">"}) THEN Colorize(l, GREEN)
    ELSE IF StartsWith(l, {"-"}) THEN Colorize(l, RED)
    ELSE IF Search(l, SuccessWords) THEN Colorize(l, GREEN)
    ELSE IF Search(l, ErrorWords) THEN Colorize(l, RED)
    ELSE IF Search(l, WarningWords) THEN Colorize(l, YELLOW)
    ELSE IF StartsWith(l, Stamps) THEN Colorize(l, CYAN)
    ELSE IF Bracketed(l) THEN Colorize(l, BLUE)
    ELSE l

\* colorize_line(line, is_error), lines 164-199
colorize_line(l, e) ==
    IF no_color THEN l
    ELSE IF HasEscape(l) THEN l
    ELSE IF e THEN ErrorLine(l)
    ELSE OutputLine(l)

\* what the 'log' branch prints for a line that is not a tail header,
\* lines 371-382
LiveLine(l) ==
    IF HasEscape(l) THEN l
    ELSE IF Search(l, SuccessWords) THEN Colorize(l, GREEN)
    ELSE IF Search(l, ErrorWords) THEN Colorize(l, RED)
    ELSE IF Search(l, WarningWords) THEN Colorize(l, YELLOW)
    ELSE l

sessionVars == <<envVars, inputVars, files_to_follow, job_id, tailVars,
                 readVars, output_queue, pollVars, mergeVars>>

\* colorize_output: print(self.colorize_line(line, is_error))  (line 217)
ColorizeOutput ==
    /\ "static" \notin applied
    /\ static_out' = colorize_line(raw_line, is_error)
    /\ applied' = applied \cup {"static"}
    /\ UNCHANGED <<sessionVars, raw_line, is_error, no_color, live_out,
                   again_out>>

\* the merge loop prints the line in its 'log' branch
FollowPrint ==
    /\ "live" \notin applied
    /\ live_out' = LiveLine(raw_line)
    /\ applied' = applied \cup {"live"}
    /\ UNCHANGED <<sessionVars, raw_line, is_error, no_color, static_out,
                   again_out>>

\* colorize_line applied to what colorize_line returned
ColorizeAgain ==
    /\ "static" \in applied
    /\ "again" \notin applied
    /\ again_out' = colorize_line(static_out, is_error)
    /\ applied' = applied \cup {"again"}
    /\ UNCHANGED <<sessionVars, raw_line, is_error, no_color, static_out,
                   live_out>>

\* Any line of either log, colours on or off; no session is running.
InitClassify ==
    /\ InitCommon
    /\ exists = [f \in Files |-> FALSE]
    /\ name_has_id = FALSE
    /\ scripted = FALSE
    /\ script = << >>
    /\ raw_line \in Lines
    /\ is_error \in BOOLEAN
    /\ no_color \in BOOLEAN
    /\ applied = {}
    /\ static_out = << >>
    /\ live_out = << >>
    /\ again_out = << >>

NextClassify ==
    \/ ColorizeOutput
    \/ FollowPrint
    \/ ColorizeAgain

SpecClassify == InitClassify /\ [][NextClassify]_vars

-----------------------------------------------------------------------------
(* Histories, read *)

Completions == { i \in DOMAIN emitted : emitted[i].msg.type = "completed" }
StatusPuts == SelectSeq(emitted, LAMBDA e : e.msg.type = "status")
LateQueries == { i \in DOMAIN queries : queries[i].returned }
ToldAt(kinds) == { i \in DOMAIN queries : queries[i].told \in kinds }
StatusesTaken == SelectSeq(got_poll, LAMBDA m : m.type = "status")
CompletedTaken == \E i \in DOMAIN got_poll : got_poll[i].type = "completed"
FootersWritten == { i \in DOMAIN written : written[i].op = "footer" }
LinesWritten == { i \in DOMAIN written : written[i].op = "line" }

-----------------------------------------------------------------------------
\* C1: the poller puts at most one 'completed' on the queue, and the query
\* that led to it is the last query the poller ever makes.
C1_OneCompletionThenSilence ==
    /\ Cardinality(Completions) <= 1
    /\ \A i \in Completions : emitted[i].q = Len(queries)

\* 'completed' was put, the thread has ended, and queries were still allowed.
C1_Witness ==
    /\ Completions # {}
    /\ ppc = "exited"
    /\ Len(queries) < MaxPolls

\* C2: 'completed' is put if and only if some earlier query reported the job
\* absent; a query that fails never leads to it.
C2_CompletedIffAbsent ==
    (Completions # {}) <=> (ToldAt({"absent"}) # {})

\* C3: once the session has ended by an interrupt, tail has been terminated
\* and no squeue query is made after follow_logs returned.
C3_CancelStopsProducers ==
    outcome = "Cancelled" => (process = "ended" /\ LateQueries = {})

\* C4: a session interrupted before any 'completed' was put never sees one
\* put later, and its last word on the terminal is the 'stopped' notice.
C4_CancelledNeverCompletes ==
    (outcome = "Cancelled" /\ \A i \in Completions : emitted[i].returned)
        => (Completions = {} /\ written = << Notice("stopped") >>)

\* C5: a failed query (non-zero exit, or an error in the call) leaves the
\* poller polling: the thread stays alive with job_running set and puts no
\* 'completed' because of it.
C5_FailureKeepsPolling ==
    \A i \in ToldAt({"error", "raised"}) :
        /\ job_running
        /\ ppc \notin {"dead", "exited"}
        /\ \A j \in Completions : emitted[j].q # i

\* C6: no two consecutive 'status' messages put on the queue carry the same
\* status text, whatever the scheduler answers.
C6_NoRepeatedStatus ==
    \A i \in 1..(Len(StatusPuts) - 1) :
        StatusPuts[i].msg.content # StatusPuts[i + 1].msg.content

\* Two queries found the job active and the second put nothing.
C6_Witness ==
    /\ Len(queries) >= 2
    /\ queries[1].told = "active"
    /\ queries[2].told = "active"
    /\ Len(StatusPuts) = 1

\* The messages the scripted session's poller is expected to put, in order.
ScriptedStatus005 == Msg("status", ComposeStatus(TheJobId, Running005.out))
ScriptedStatus010 == Msg("status", ComposeStatus(TheJobId, Running010.out))
ScriptedTypes == << "status", "status", "completed" >>
ScriptedContents ==
    << ScriptedStatus005.content, ScriptedStatus010.content, TheJobId >>

SameAsScripted(m, i) ==
    /\ i <= Len(ScriptedTypes)
    /\ m.type = ScriptedTypes[i]
    /\ m.content = ScriptedContents[i]

\* In the scripted session the poller puts exactly status RUNNING/0:05,
\* status RUNNING/0:10 and 'completed', and the merge loop takes them in that
\* order before it leaves Running for Draining and Terminated.
ScriptedEventsAsClaimed ==
    /\ \A i \in DOMAIN emitted : SameAsScripted(emitted[i].msg, i)
    /\ ppc = "exited" => Len(emitted) = Len(ScriptedTypes)
    /\ \A i \in DOMAIN got_poll : SameAsScripted(got_poll[i], i)
    /\ CompletedTaken => /\ Len(got_poll) = Len(ScriptedTypes)
                         /\ mstate \in {"Draining", "Terminated"}
    /\ mstate = "Draining" => written = << Banner(TheJobId) >>
    /\ outcome = "Completed" => mstate = "Terminated" /\ process = "ended"

\* C7: for the answers RUNNING/0:05, RUNNING/0:05, RUNNING/0:10, absent the
\* merge loop receives one status for 0:05, one for 0:10 and one 'completed',
\* then prints the banner and a summary line and ends in Terminated.
C7_ScriptedSession ==
    /\ ScriptedEventsAsClaimed
    /\ outcome = "Completed" =>
           \E k \in {"success", "failure", "neutral", "unknown"} :
               written = << [op |-> "summary", kind |-> k], [op |-> "rule"] >>

\* C8: while the merge loop waits for a message and a status is set, the
\* last write to the terminal is that status line; a log line was written as
\* erase, line, status line, and a status as erase, status line with no line.
C8_StickyFooter ==
    (mstate = "Running" /\ current_status # NoText) =>
        /\ written # << >>
        /\ written[Len(written)] = Footer(current_status)
        /\ written[1] = ClearLine
        /\ \/ Len(written) = 2
           \/ Len(written) = 3 /\ written[2].op = "line"

\* A log line was printed under a status line that was already showing.
C8_Witness ==
    /\ mstate = "Running"
    /\ current_status # NoText
    /\ LinesWritten # {}

\* C9: every status line drawn shows the status of the latest 'status'
\* message taken, and none is drawn once 'completed' has been taken.
C9_MonotonicRedraw ==
    /\ \A i \in FootersWritten :
           /\ StatusesTaken # << >>
           /\ written[i].text = StatusesTaken[Len(StatusesTaken)].content
    /\ CompletedTaken => FootersWritten = {}

\* A log line was redrawn under the second status taken.
C9_Witness ==
    /\ Len(StatusesTaken) >= 2
    /\ LinesWritten # {}
    /\ FootersWritten # {}

\* tail has written every line of the files it was started on.
TailIdle ==
    /\ process = "running"
    /\ pipe = << >>
    /\ \A f \in Range(files_to_follow) : tail_off[f] = flen[f]

\* C10: a requested target that was missing at the start is followed once it
\* appears: when tail has nothing left to write, no line appended to a
\* requested target is still unread.
C10_LateFileFollowed ==
    (mstate = "Running" /\ TailIdle) =>
        \A f \in Files : show[f] => tail_off[f] = flen[f]

\* Two messages are the same (the type decides how contents compare).
SameMsg(a, b) == a.type = b.type /\ a.content = b.content
SameMsgs(s, t) ==
    /\ Len(s) = Len(t)
    /\ \A i \in 1..Len(s) : i <= Len(t) => SameMsg(s[i], t[i])

ReaderQueued == SelectSeq(output_queue, FromReader)
PollerQueued == SelectSeq(output_queue, LAMBDA m : ~FromReader(m))
PollerPuts == [i \in 1..Len(emitted) |-> emitted[i].msg]

\* C11 as stated: every message put on the queue is consumed; so when the
\* session has ended and both producers have stopped, none is left unread.
C11_EveryPutConsumed ==
    (Returned /\ rpc = "finished" /\ ppc \in {"idle", "exited"})
        => output_queue = << >>

\* C11 as amended: per producer, the messages taken followed by the ones
\* still queued are exactly the messages put, in the order they were put:
\* none is taken twice, skipped or reordered; the ones still queued when the
\* session ends are never taken.
C11_TakenOnceInOrder ==
    /\ SameMsgs(got_log \o ReaderQueued, put_log)
    /\ SameMsgs(got_poll \o PollerQueued, PollerPuts)
    /\ Returned => ~ENABLED MergerGet

\* Messages of both producers were taken while others of both still wait.
C11_Witness ==
    /\ got_log # << >>
    /\ got_poll # << >>
    /\ ReaderQueued # << >>
    /\ PollerQueued # << >>


\* The writes of the final-status lookup are one summary line, then the rule.
OneSummaryThenRule(w) ==
    /\ Len(w) = 2
    /\ w[1].op = "summary"
    /\ w[2] = [op |-> "rule"]

\* C12: whatever the sacct lookup gives, Draining starts from the banner,
\* prints exactly one summary line, terminates the tail and ends the session.
C12_DrainAlwaysSummarises ==
    /\ mstate = "Draining" => written = << Banner(job_id) >>
    /\ outcome = "Completed" => /\ OneSummaryThenRule(written)
                                /\ process = "ended"
                                /\ mstate = "Terminated"

\* No requested log file exists (os.path.exists is false for each).
NoTargetExists == \A f \in Files : ~(show[f] /\ exists[f])

\* Nothing was started and nothing was handled: no tail, no reader thread,
\* no status thread, no query, no message put or taken.
NothingStarted ==
    /\ process = "none"
    /\ rpc = "idle"
    /\ ppc = "idle"
    /\ queries = << >>
    /\ emitted = << >>
    /\ put_log = << >>
    /\ output_queue = << >>
    /\ got_log = << >>
    /\ got_poll = << >>

\* C13: when follow_logs starts and no requested file exists, it reports
\* that there is nothing to follow and returns at once; from then on no tail
\* runs, no status thread runs and no message is ever handled, whatever
\* happens to the files later.
C13_NothingToFollow ==
    /\ [][(mstate = "Starting" /\ mstate' # "Starting" /\ NoTargetExists)
             => (mstate' = "Terminated" /\ outcome' = "NothingToFollow")]_vars
    /\ [](outcome = "NothingToFollow" =>
             /\ mstate = "Terminated"
             /\ NothingStarted
             /\ written = << Notice("nothing to follow") >>)

\* follow_logs returned with nothing to follow and a log file appeared and
\* grew afterwards.
C13_Witness ==
    /\ outcome = "NothingToFollow"
    /\ \E f \in Files : exists[f] /\ flen[f] > 0

\* C14: with no job id in the file names the status thread is never started:
\* it makes no query and puts no 'status' or 'completed' message, no status
\* line is set or drawn, the session never ends by job completion, and the
\* lines of the log files are still handled by the merge loop.
C14_NoJobIdNoPoller ==
    ~name_has_id =>
        /\ ppc = "idle"
        /\ queries = << >>
        /\ emitted = << >>
        /\ PollerQueued = << >>
        /\ got_poll = << >>
        /\ current_status = NoText
        /\ FootersWritten = {}
        /\ outcome \in {"none", "NothingToFollow", "StreamClosed", "Cancelled"}
        /\ mstate # "Draining"

\* Without a job id a log line was taken and shown, and a session ended by
\* the closing of the stream.
C14_Witness ==
    /\ ~name_has_id
    /\ job_id = "None"
    /\ \E i \in 1..Len(got_log) : got_log[i].type = "log"
    /\ outcome = "StreamClosed"

\* The lines the merge loop has taken in its 'log' branch, in order.
LogsTaken ==
    LET logs == SelectSeq(got_log, LAMBDA m : m.type = "log")
    IN  [i \in 1..Len(logs) |-> logs[i].content]

BothShown == ~no_color /\ {"static", "live"} \subseteq applied

\* C16: the merge loop prints every line of either log coloured as
\* colorize_line colours it for that log.
C16_LiveAsStatic == BothShown => live_out = static_out

\* C17: a line that holds an escape sequence comes back unchanged from
\* colorize_line, for either log, and is printed unchanged by the merge
\* loop; and colorize_line applied to its own result returns that result.
C17_EscapeKeptAndIdempotent ==
    /\ ("static" \in applied /\ HasEscape(raw_line)) => static_out = raw_line
    /\ ("live" \in applied /\ HasEscape(raw_line)) => live_out = raw_line
    /\ "again" \in applied => again_out = static_out

\* A line of the error log that holds an escape sequence and an error word
\* was shown by both paths, and its result was given to colorize_line again.
C17_Witness ==
    /\ HasEscape(raw_line)
    /\ Search(raw_line, ErrorWords)
    /\ is_error
    /\ ~no_color
    /\ applied = {"static", "live", "again"}

\* The word a token is, whatever its letter case.
LowerCase(t) ==
    CASE t \in {"error", "Error", "ERROR", "eRRoR"} -> "error"
      [] t \in {"failed", "Failed", "FAILED"} -> "failed"
      [] t \in {"warning", "Warning", "WARNING", "wARNiNG"} -> "warning"
      [] t \in {"success", "Success", "SUCCESS"} -> "success"
      [] t \in {"completed", "Completed", "COMPLETED"} -> "completed"
      [] t \in {"done", "Done", "DONE", "dOnE"} -> "done"
      [] OTHER -> t

\* The line holds one of the words, in any letter case.
HoldsAnyCase(l, words) == \E i \in 1..Len(l) : LowerCase(l[i]) \in words

\* The line l wrapped in the colour c and the reset code.
Painted(l, c) == << c >> \o l \o << NC >>

\* colorize_line has coloured the line, of the given log, and the line holds
\* no escape sequence.
StaticShown(e) ==
    /\ "static" \in applied
    /\ ~no_color
    /\ is_error = e
    /\ ~HasEscape(raw_line)

\* C18: a line of the error log without an escape sequence is red when it
\* holds 'error' or 'failed' in any letter case, also when it holds
\* 'warning' too; else yellow when it holds 'warning' in any letter case;
\* else magenta.
C18_ErrorLogAnyCase ==
    StaticShown(TRUE) =>
        static_out =
            IF HoldsAnyCase(raw_line, {"error", "failed"})
            THEN Painted(raw_line, RED)
            ELSE IF HoldsAnyCase(raw_line, {"warning"})
                 THEN Painted(raw_line, YELLOW)
                 ELSE Painted(raw_line, MAGENTA)

\* C19: a line of the output log without an escape sequence gets the colour
\* of the first rule that applies, in the order: leading '+' or '>' green,
\* leading '-' red, success/completed/done green, error/failed red, warning
\* yellow, leading date or time cyan, leading [...] blue, else no colour.
C19_OutputLogOrder ==
    StaticShown(FALSE) =>
        LET l     == raw_line
            add   == StartsWith(l, {"+", ">"})
            rem   == StartsWith(l, {"-"})
            suc   == Search(l, SuccessWords)
            fail  == Search(l, ErrorWords)
            warn  == Search(l, WarningWords)
            stamp == StartsWith(l, Stamps)
            brack == Bracketed(l)
        IN  /\ add => static_out = Painted(l, GREEN)
            /\ (rem /\ ~add) => static_out = Painted(l, RED)
            /\ (suc /\ ~(add \/ rem)) => static_out = Painted(l, GREEN)
            /\ (fail /\ ~(add \/ rem \/ suc)) => static_out = Painted(l, RED)
            /\ (warn /\ ~(add \/ rem \/ suc \/ fail))
                   => static_out = Painted(l, YELLOW)
            /\ (stamp /\ ~(add \/ rem \/ suc \/ fail \/ warn))
                   => static_out = Painted(l, CYAN)
            /\ (brack /\ ~(add \/ rem \/ suc \/ fail \/ warn \/ stamp))
                   => static_out = Painted(l, BLUE)
            /\ ~(add \/ rem \/ suc \/ fail \/ warn \/ stamp \/ brack)
                   => static_out = l

\* A line of the output log that starts with '-' and holds a success word
\* was coloured.
C19_Witness ==
    /\ StaticShown(FALSE)
    /\ StartsWith(raw_line, {"-"})
    /\ Search(raw_line, SuccessWords)

\* C20: once the session has ended by 'done' or after the final-status
\* lookup, the merge loop takes no further message, no squeue query is made
\* after follow_logs returned, and tail is not running.
C20_EndStopsProducers ==
    outcome \in {"StreamClosed", "Completed"} =>
        /\ ~ENABLED MergerGet
        /\ ~ENABLED MergerDrain
        /\ LateQueries = {}
        /\ process = "ended"

\* A step of the read_output thread or of the check_job_status thread, once
\* follow_logs has started them.
ProducerStep ==
    /\ mstate # "Starting"
    /\ readVars' # readVars \/ pollVars' # pollVars

\* A step of the merge loop.
MergerStep ==
    /\ mstate # "Starting"
    /\ mergeVars' # mergeVars

\* The queue q2 is the queue q1 with messages put at its end.
PutOnto(q1, q2) ==
    /\ Len(q1) <= Len(q2)
    /\ \A i \in 1..Len(q1) : i <= Len(q2) => SameMsg(q1[i], q2[i])

\* The producers' steps leave the merge loop's variables and what it wrote
\* alone and only put messages on the queue.
ProducersOnlyPut ==
    ProducerStep => (UNCHANGED mergeVars /\ PutOnto(output_queue, output_queue'))

\* The merge loop's steps leave job_running and last_status alone.
MergerLeavesFlags == MergerStep => UNCHANGED <<job_running, last_status>>

\* C21: no step of read_output or check_job_status writes anything to the
\* terminal or changes the merge loop's state, its only effect there being
\* messages put on the queue; and no step of the merge loop changes
\* job_running or last_status.
C21_ProducersFrame ==
    /\ [][ProducersOnlyPut]_vars
    /\ [][ProducerStep => stderr_out' = stderr_out]_vars
    /\ [][MergerLeavesFlags]_vars

\* sacct gave a state and an exit code.
Resolved(r) == r.kind = "exit0" /\ Len(r.out) >= 2

\* sacct gave nothing: no output, a non-zero exit, a timeout, or no sacct.
NoData(r) ==
    \/ r.kind \in {"nonzero", "timeout", "notfound"}
    \/ r.kind = "exit0" /\ r.out = << >>

Summary(k) == [op |-> "summary", kind |-> k]

\* C22: after the final-status lookup the summary line is the success line
\* exactly when sacct gave COMPLETED with 0:0, the failure line when it gave
\* FAILED or an exit code not starting with "0:", the neutral line for any
\* other state and exit code, and the 'no longer in queue' line when sacct
\* gave nothing.
C22_SummaryByDisposition ==
    outcome = "Completed" =>
        LET r == sacct_answer
        IN  /\ Resolved(r) =>
                  LET state == r.out[1]
                      exit_code == r.out[2]
                      ok == state = "COMPLETED" /\ exit_code = <<"0", ":", "0">>
                      bad == state = "FAILED" \/ ~StartsWithZeroColon(exit_code)
                  IN  /\ (written[1] = Summary("success")) <=> ok
                      /\ bad => written[1] = Summary("failure")
                      /\ (~ok /\ ~bad) => written[1] = Summary("neutral")
            /\ NoData(r) => written[1] = Summary("unknown")

\* sacct gave COMPLETED with the exit code 2:0 and the summary was printed.
C22_Witness ==
    /\ outcome = "Completed"
    /\ Resolved(sacct_answer)
    /\ sacct_answer.out[1] = "COMPLETED"
    /\ sacct_answer.out[2] = <<"2", ":", "0">>

\* A squeue query of a session with a job id has reported the job absent.
AbsentReported == name_has_id /\ ToldAt({"absent"}) # {}

\* C23: in a session with a job id, once a squeue query has reported the job
\* absent, the session reaches Terminated when the status thread and the
\* merge loop are scheduled fairly, with no help from an interrupt; and the
\* sleep between two queries is never longer than status_interval seconds.
C23_CompletionTerminates ==
    /\ [](ticks <= status_interval * TicksPerSecond)
    /\ AbsentReported ~> (mstate = "Terminated")

\* The job was reported absent and the session ended after its banner, with
\* log lines taken on the way.
C23_Witness ==
    /\ AbsentReported
    /\ outcome = "Completed"
    /\ got_log # << >>

\* C24: when the merge loop has taken 'completed' (and printed the banner),
\* the messages of read_output it has taken and printed are exactly those
\* put before 'completed' was put; this stays so for ever: what was put
\* later, or was still in the pipe, is never taken and no log line is
\* written after the banner.
C24_CompletedCutsTheLog ==
    CompletedTaken =>
        /\ \A i \in Completions : Len(got_log) = emitted[i].logs
        /\ \A j \in 1..Len(got_log) : got_log[j].type = "log"
        /\ LinesWritten = {}

\* Log lines were put and printed before 'completed', another one was put
\* after it and is left on the queue; the session has ended after its banner.
C24_Witness ==
    /\ outcome = "Completed"
    /\ Len(got_log) >= 2
    /\ \E k \in 1..Len(ReaderQueued) : ReaderQueued[k].type = "log"

=============================================================================
